---- MODULE Spec2Model ----
(***************************************************************************)
(* Model of Genesys_app.py (CMC Genesys Item Size Analysis).               *)
(*                                                                         *)
(* The Streamlit script is a state machine: the uploaded table, the four   *)
(* column selectboxes, the module-level constants, and the outcome of the  *)
(* last "Process File" press.  Every widget interaction reruns the script; *)
(* the annotated table and the summary exist only in the rerun triggered   *)
(* by the button.                                                          *)
(*                                                                         *)
(* Numbers are pandas float64/int64 values restricted to the integers and  *)
(* the IEEE specials NaN, +inf, -inf.  A raw cell is a sequence of         *)
(* characters; pd.to_numeric is modelled as the parser it is.  A Series is *)
(* a function from an index set (a subset of 0..n-1) to values.            *)
(***************************************************************************)
EXTENDS Integers, Sequences, FiniteSets, TLC

VARIABLES
    uploaded,            \* st.file_uploader returned a file
    df,                  \* load_file(uploaded): function 0..n-1 -> [column -> raw cell]
    item_col,            \* the four st.selectbox values ("None": widget not rendered)
    height_col,
    width_col,
    length_col,
    MAX_WIDTH,           \* module-level globals
    MAX_LENGTH,
    MAX_HEIGHT,
    CARDBOARD_OPTIONS,
    outcome,             \* what the rerun in which the button was pressed produced
    remembered           \* history variable: one earlier invocation (input and outcome)

vars == <<uploaded, df, item_col, height_col, width_col, length_col,
          MAX_WIDTH, MAX_LENGTH, MAX_HEIGHT, CARDBOARD_OPTIONS, outcome, remembered>>

globals == <<MAX_WIDTH, MAX_LENGTH, MAX_HEIGHT, CARDBOARD_OPTIONS>>

selectors == <<item_col, height_col, width_col, length_col>>

-----------------------------------------------------------------------------
(* Bounds of the model *)

\* most rows of an uploaded table
MaxRows == 4

\* most entries of a configured cardboard list (SpecCfg only)
MaxWidths == 3

-----------------------------------------------------------------------------
(* float64 values: integers, NaN, +inf, -inf *)

Num(n) == [k |-> "num", v |-> n]

NaN == [k |-> "nan", v |-> 0]

Inf(s) == [k |-> "inf", v |-> s]

isna(x) == x.k = "nan"

FSign(x) == IF x.v > 0 THEN 1 ELSE IF x.v < 0 THEN -1 ELSE 0

\* IEEE multiplication: NaN propagates, 0 * inf is NaN
FMul(a, b) ==
    IF isna(a) \/ isna(b) THEN NaN
    ELSE IF a.k = "num" /\ b.k = "num" THEN Num(a.v * b.v)
    ELSE IF FSign(a) = 0 \/ FSign(b) = 0 THEN NaN
    ELSE Inf(FSign(a) * FSign(b))

\* IEEE addition: NaN propagates, inf + (-inf) is NaN
FAdd(a, b) ==
    IF isna(a) \/ isna(b) THEN NaN
    ELSE IF a.k = "num" /\ b.k = "num" THEN Num(a.v + b.v)
    ELSE IF a.k = "inf" /\ b.k = "inf" THEN (IF a.v = b.v THEN a ELSE NaN)
    ELSE IF a.k = "inf" THEN a ELSE b

\* IEEE <= : false whenever an operand is NaN
FLe(a, b) ==
    IF isna(a) \/ isna(b) THEN FALSE
    ELSE IF a.k = "num" /\ b.k = "num" THEN a.v <= b.v
    ELSE IF a.k = "inf" /\ b.k = "inf" THEN a.v <= b.v
    ELSE IF a.k = "inf" THEN a.v < 0
    ELSE b.v > 0

-----------------------------------------------------------------------------
(* pd.to_numeric(series, errors=...) *)

Digits == <<"0", "1", "2", "3", "4", "5", "6", "7", "8", "9">>

IsDigit(c) == \E d \in 1..10 : Digits[d] = c

DigitVal(c) == (CHOOSE d \in 1..10 : Digits[d] = c) - 1

RECURSIVE DigitsValue(_)
DigitsValue(s) ==
    IF s = <<>> THEN 0
    ELSE 10 * DigitsValue(SubSeq(s, 1, Len(s) - 1)) + DigitVal(s[Len(s)])

\* one cell: an optional sign, then "inf" or decimal digits; anything else
\* (the empty cell included) does not parse
parse_cell(s) ==
    LET signed == s # <<>> /\ s[1] \in {"-", "+"}
        sgn    == IF signed /\ s[1] = "-" THEN -1 ELSE 1
        body   == IF signed THEN Tail(s) ELSE s
    IN  IF body = <<"i", "n", "f">> THEN [ok |-> TRUE, val |-> Inf(sgn)]
        ELSE IF body # <<>> /\ \A i \in 1..Len(body) : IsDigit(body[i])
             THEN [ok |-> TRUE, val |-> Num(sgn * DigitsValue(body))]
        ELSE [ok |-> FALSE, val |-> NaN]

\* to_numeric called without errors="coerce": an unparseable cell raises
to_numeric_raise(series, errors) ==
    LET parsed == [i \in DOMAIN series |-> parse_cell(series[i])]
    IN  IF \E i \in DOMAIN series : ~parsed[i].ok /\ series[i] # <<>>
        THEN [exc |-> "ValueError", val |-> [i \in DOMAIN series |-> NaN]]
        ELSE [exc |-> "None", val |-> [i \in DOMAIN series |-> parsed[i].val]]

\* errors="coerce" turns an unparseable cell into NaN; errors="raise" raises
to_numeric(series, errors) ==
    LET parsed == [i \in DOMAIN series |-> parse_cell(series[i])]
    IN  IF errors = "raise" /\ \E i \in DOMAIN series : ~parsed[i].ok /\ series[i] # <<>>
        THEN [exc |-> "ValueError", val |-> [i \in DOMAIN series |-> NaN]]
        ELSE [exc |-> "None", val |-> [i \in DOMAIN series |-> parsed[i].val]]

-----------------------------------------------------------------------------
(* pandas Series helpers *)

\* df[col]
Column(table, col) == [i \in DOMAIN table |-> table[i][col]]

\* pd.Series([value] * n, dtype="object"): RangeIndex 0..n-1
full_series(n, value) == [i \in 0..(n - 1) |-> value]

\* series.loc[mask] = value (scalar)
loc_set(series, mask, value) ==
    [i \in DOMAIN series |-> IF i \in DOMAIN mask /\ mask[i] THEN value ELSE series[i]]

\* series.loc[mask]
loc_get(series, mask) == [i \in {j \in DOMAIN series : mask[j]} |-> series[i]]

\* series.loc[mask] = other (a Series, aligned on the index)
loc_assign(series, mask, other) ==
    [i \in DOMAIN series |->
        IF i \in DOMAIN mask /\ mask[i]
        THEN (IF i \in DOMAIN other THEN other[i] ELSE "nan")
        ELSE series[i]]

\* str(n) of an int
str(n) == ToString(n)

\* len(list) and list[i] of a Python list (0-based); out of range raises IndexError
in_range(list, i) == i < Len(list)

py_item(list, i) == list[i + 1]

-----------------------------------------------------------------------------
(* pick_cardboard, lines 29-38 *)

\* pick_cardboard with the two overwrites in the other order
pick_cardboard_reversed(width_series, height_series) ==
    LET wrap   == [i \in DOMAIN width_series \cap DOMAIN height_series |->
                      FAdd(width_series[i], height_series[i])]
        result == [i \in DOMAIN wrap |-> "No Fit"]
    IN  IF ~in_range(CARDBOARD_OPTIONS, 1)
        THEN [exc |-> "IndexError", val |-> result]
        ELSE LET opt1  == py_item(CARDBOARD_OPTIONS, 1)
                 opt0  == py_item(CARDBOARD_OPTIONS, 0)
                 set23 == loc_set(result, [i \in DOMAIN wrap |-> FLe(wrap[i], Num(opt0))], str(opt0))
                 set39 == loc_set(set23, [i \in DOMAIN wrap |-> FLe(wrap[i], Num(opt1))], str(opt1))
             IN  [exc |-> "None", val |-> set39]

\* pick_cardboard comparing with < instead of <=
pick_cardboard_strict(width_series, height_series) ==
    LET wrap   == [i \in DOMAIN width_series \cap DOMAIN height_series |->
                      FAdd(width_series[i], height_series[i])]
        result == [i \in DOMAIN wrap |-> "No Fit"]
    IN  IF ~in_range(CARDBOARD_OPTIONS, 1)
        THEN [exc |-> "IndexError", val |-> result]
        ELSE LET opt1  == py_item(CARDBOARD_OPTIONS, 1)
                 opt0  == py_item(CARDBOARD_OPTIONS, 0)
                 set39 == loc_set(result, [i \in DOMAIN wrap |->
                              FLe(wrap[i], Num(opt1)) /\ wrap[i] # Num(opt1)], str(opt1))
                 set23 == loc_set(set39, [i \in DOMAIN wrap |->
                              FLe(wrap[i], Num(opt0)) /\ wrap[i] # Num(opt0)], str(opt0))
             IN  [exc |-> "None", val |-> set23]

pick_cardboard(width_series, height_series) ==
    LET wrap   == [i \in DOMAIN width_series \cap DOMAIN height_series |->
                      FAdd(width_series[i], height_series[i])]
        result == [i \in DOMAIN wrap |-> "No Fit"]
    IN  IF ~in_range(CARDBOARD_OPTIONS, 1)
        THEN [exc |-> "IndexError", val |-> result]
        ELSE LET opt1  == py_item(CARDBOARD_OPTIONS, 1)
                 opt0  == py_item(CARDBOARD_OPTIONS, 0)
                 \* set 39 first, then overwrite with 23 where applicable
                 set39 == loc_set(result, [i \in DOMAIN wrap |-> FLe(wrap[i], Num(opt1))], str(opt1))
                 set23 == loc_set(set39, [i \in DOMAIN wrap |-> FLe(wrap[i], Num(opt0))], str(opt0))
             IN  [exc |-> "None", val |-> set23]

-----------------------------------------------------------------------------
(* the "Process File" block, lines 57-111 *)

\* line 64
invalid(height, width, length) ==
    [i \in DOMAIN height |-> isna(height[i]) \/ isna(width[i]) \/ isna(length[i])]

\* volume taken from height and width alone
volume_no_length(height, width, length) ==
    LET product == [i \in DOMAIN height |-> FMul(height[i], width[i])]
    IN  [i \in DOMAIN product |-> product[i]]

\* lines 67-68
volume(height, width, length) ==
    LET product == [i \in DOMAIN height |-> FMul(FMul(height[i], width[i]), length[i])]
        inv     == invalid(height, width, length)
    IN  [i \in DOMAIN product |-> IF ~inv[i] THEN product[i] ELSE NaN]

\* fits_machine comparing with < instead of <=
fits_machine_strict(height, width, length) ==
    [i \in DOMAIN height |->
        /\ FLe(height[i], Num(MAX_HEIGHT)) /\ height[i] # Num(MAX_HEIGHT)
        /\ FLe(width[i], Num(MAX_WIDTH)) /\ width[i] # Num(MAX_WIDTH)
        /\ FLe(length[i], Num(MAX_LENGTH)) /\ length[i] # Num(MAX_LENGTH)]

\* fits_machine without the height comparison
fits_machine_no_height(height, width, length) ==
    [i \in DOMAIN height |->
        /\ FLe(width[i], Num(MAX_WIDTH))
        /\ FLe(length[i], Num(MAX_LENGTH))]

\* lines 71-75
fits_machine(height, width, length) ==
    [i \in DOMAIN height |->
        /\ FLe(height[i], Num(MAX_HEIGHT))
        /\ FLe(width[i], Num(MAX_WIDTH))
        /\ FLe(length[i], Num(MAX_LENGTH))]

\* status with a default label the summary does not count
status_other_label(n, height, width, length) ==
    LET fits == fits_machine(height, width, length)
        inv  == invalid(height, width, length)
    IN  loc_set(full_series(n, "Not OK"),
                [i \in DOMAIN fits |-> fits[i] /\ ~inv[i]], "OK")

\* lines 77-78
status(n, height, width, length) ==
    LET fits == fits_machine(height, width, length)
        inv  == invalid(height, width, length)
    IN  loc_set(full_series(n, "No OK"),
                [i \in DOMAIN fits |-> fits[i] /\ ~inv[i]], "OK")

\* line 82
valid_for_cardboard(height, width) ==
    [i \in DOMAIN height |-> ~(isna(height[i]) \/ isna(width[i]))]

\* lines 81-86
cardboard_width(n, height, width) ==
    LET mask   == valid_for_cardboard(height, width)
        picked == pick_cardboard(loc_get(width, mask), loc_get(height, mask))
    IN  [exc |-> picked.exc,
         val |-> loc_assign(full_series(n, "No Fit"), mask, picked.val)]

\* (df_out[col] == value).sum()
count_eq(series, value) == Cardinality({i \in DOMAIN series : series[i] = value})

\* the percentage without the `if total` guard
pct_unguarded(count, total) ==
    IF total # 0 THEN [exc |-> "None", num |-> count * 100, den |-> total]
    ELSE [exc |-> "ZeroDivisionError", num |-> 0, den |-> 1]

\* lines 103-104: (count / total * 100) if total else 0.0, as the exact ratio
pct(count, total) ==
    IF total # 0 THEN [exc |-> "None", num |-> count * 100, den |-> total]
    ELSE [exc |-> "None", num |-> 0, den |-> 1]

\* round(x, 2) in hundredths: to nearest, ties to even
round2(x) ==
    LET n == x.num * 100
        q == n \div x.den
        r == n % x.den
    IN  IF 2 * r < x.den THEN q
        ELSE IF 2 * r > x.den THEN q + 1
        ELSE IF q % 2 = 0 THEN q ELSE q + 1

no_summary == [total |-> 0, ok_count |-> 0, ok_pct |-> 0, no_ok_count |-> 0, no_ok_pct |-> 0]

no_result == [done |-> FALSE, exc |-> "None", df_out |-> [i \in {} |-> 0], summary |-> no_summary]

raised(e) == [done |-> TRUE, exc |-> e, df_out |-> [i \in {} |-> 0], summary |-> no_summary]

\* lines 100-111
summary_of(df_out) ==
    LET total       == Cardinality(DOMAIN df_out)
        st          == [i \in DOMAIN df_out |-> df_out[i].Status]
        ok_count    == count_eq(st, "OK")
        no_ok_count == count_eq(st, "No OK")
        ok_pct      == pct(ok_count, total)
        no_ok_pct   == pct(no_ok_count, total)
    IN  [exc |-> IF ok_pct.exc # "None" THEN ok_pct.exc ELSE no_ok_pct.exc,
         val |-> [total |-> total, ok_count |-> ok_count, ok_pct |-> round2(ok_pct),
                  no_ok_count |-> no_ok_count, no_ok_pct |-> round2(no_ok_pct)]]

\* lines 64-111 with the length-valid mask reused for the cardboard step
classify_all_valid(n, item_id, height, width, length) ==
    LET inv == invalid(height, width, length)
        vol == volume(height, width, length)
        sts == status(n, height, width, length)
        cw  == cardboard_width(n, [i \in DOMAIN height |-> IF inv[i] THEN NaN ELSE height[i]], width)
    IN  IF cw.exc # "None" THEN raised(cw.exc)
        ELSE
        LET df_out == [i \in DOMAIN item_id |->
                         [ItemID |-> item_id[i],
                          Height |-> height[i],
                          Width  |-> width[i],
                          Length |-> length[i],
                          Volume |-> vol[i],
                          Status |-> sts[i],
                          OptimalCardboardWidth |-> cw.val[i]]]
            sm     == summary_of(df_out)
        IN  IF sm.exc # "None" THEN raised(sm.exc)
            ELSE [done |-> TRUE, exc |-> "None", df_out |-> df_out, summary |-> sm.val]

\* lines 64-111: volume, status, cardboard width, df_out and the summary
classify(n, item_id, height, width, length) ==
    LET vol == volume(height, width, length)
        sts == status(n, height, width, length)
        cw  == cardboard_width(n, height, width)
    IN  IF cw.exc # "None" THEN raised(cw.exc)
        ELSE
        LET df_out == [i \in DOMAIN item_id |->
                         [ItemID |-> item_id[i],
                          Height |-> height[i],
                          Width  |-> width[i],
                          Length |-> length[i],
                          Volume |-> vol[i],
                          Status |-> sts[i],
                          OptimalCardboardWidth |-> cw.val[i]]]
            sm     == summary_of(df_out)
        IN  IF sm.exc # "None" THEN raised(sm.exc)
            ELSE [done |-> TRUE, exc |-> "None", df_out |-> df_out, summary |-> sm.val]

\* lines 59-111: the annotated table and the summary, or the exception raised
process_file(table, ic, hc, wc, lc) ==
    LET n       == Cardinality(DOMAIN table)
        item_id == Column(table, ic)
        h       == to_numeric(Column(table, hc), "coerce")
        w       == to_numeric(Column(table, wc), "coerce")
        l       == to_numeric(Column(table, lc), "coerce")
    IN  IF h.exc # "None" THEN raised(h.exc)
        ELSE IF w.exc # "None" THEN raised(w.exc)
        ELSE IF l.exc # "None" THEN raised(l.exc)
        ELSE classify(n, item_id, h.val, w.val, l.val)

-----------------------------------------------------------------------------
(* Input tables *)

\* list(df.columns) of every uploaded table
Columns == <<"c1", "c2", "c3">>

ColumnSet == {Columns[i] : i \in 1..Len(Columns)}

\* the characters of a non-negative integer written in decimal
RECURSIVE Dec(_)
Dec(n) == IF n < 10 THEN <<Digits[n + 1]>> ELSE Dec(n \div 10) \o <<Digits[(n % 10) + 1]>>

abc == <<"a", "b", "c">>

empty == <<>>

inf == <<"i", "n", "f">>

neg_inf == <<"-", "i", "n", "f">>

Row(a, b, c) == [c1 |-> a, c2 |-> b, c3 |-> c]

\* every table of no more than max rows, each row drawn from rows
TablesOf(rows, max) == UNION {[0..(n - 1) -> rows] : n \in 0..max}

\* Spec: the rows of the worked scenarios, read as (c1, c2, c3) = (H, W, L)
ScenarioRows ==
    { Row(Dec(10), Dec(20), Dec(14)),
      Row(Dec(5),  Dec(10), abc),
      Row(empty,   Dec(20), Dec(10)),
      Row(Dec(5),  Dec(10), Dec(16)) }

Tables == TablesOf(ScenarioRows, MaxRows)

\* SpecRow: one-row tables over the cells around every limit
BoundaryCells ==
    {Dec(n) : n \in {0, 11, 12, 15, 16, 17, 22, 23}} \cup {abc, inf, neg_inf}

RowTables == TablesOf({Row(a, b, c) : a \in BoundaryCells, b \in BoundaryCells, c \in BoundaryCells}, 1)

\* SpecCfg: one-row tables and the ascending cardboard lists of a deployment
CfgCells == {Dec(5), Dec(20), Dec(30), abc}

CfgTables == TablesOf({Row(a, b, c) : a \in CfgCells, b \in CfgCells, c \in CfgCells}, 1)

Widths == {10, 23, 39, 50}

IsAscending(list) == \A i \in 1..(Len(list) - 1) : list[i] < list[i + 1]

AscendingLists ==
    {list \in UNION {[1..n -> Widths] : n \in 1..MaxWidths} : IsAscending(list)}

\* SpecRuns: the tables of two invocations that are compared
RunTables == TablesOf({Row(Dec(10), Dec(20), Dec(14)), Row(Dec(5), Dec(10), abc)}, 1)

-----------------------------------------------------------------------------
(* The script as a state machine *)

no_df == [i \in {} |-> 0]

nothing_remembered ==
    [set |-> FALSE, table |-> no_df, sel |-> <<"None", "None", "None", "None">>,
     outcome |-> no_result]

\* lines 5-9 and 22: constants bound, nothing uploaded
Init ==
    /\ uploaded = FALSE
    /\ df = no_df
    /\ item_col = "None" /\ height_col = "None"
    /\ width_col = "None" /\ length_col = "None"
    /\ MAX_WIDTH = 22
    /\ MAX_LENGTH = 15
    /\ MAX_HEIGHT = 11
    /\ CARDBOARD_OPTIONS = <<23, 39>>
    /\ outcome = no_result
    /\ remembered = nothing_remembered

\* lines 22, 40-55: a file is uploaded; the selectboxes appear on their first option
\* (replacing a file is RemoveFile followed by Upload)
Upload(tables) ==
    /\ ~uploaded
    /\ \E t \in tables : df' = t
    /\ uploaded' = TRUE
    /\ item_col' = Columns[1] /\ height_col' = Columns[1]
    /\ width_col' = Columns[1] /\ length_col' = Columns[1]
    /\ outcome' = no_result
    /\ UNCHANGED <<globals, remembered>>

\* line 22, 40: the file is removed; everything under `if uploaded is not None` goes
RemoveFile ==
    /\ uploaded
    /\ uploaded' = FALSE
    /\ df' = no_df
    /\ item_col' = "None" /\ height_col' = "None"
    /\ width_col' = "None" /\ length_col' = "None"
    /\ outcome' = no_result
    /\ UNCHANGED <<globals, remembered>>

\* line 51
SelectItem ==
    /\ uploaded
    /\ \E c \in ColumnSet \ {item_col} : item_col' = c
    /\ outcome' = no_result
    /\ UNCHANGED <<uploaded, df, height_col, width_col, length_col, globals, remembered>>

\* line 52
SelectHeight ==
    /\ uploaded
    /\ \E c \in ColumnSet \ {height_col} : height_col' = c
    /\ outcome' = no_result
    /\ UNCHANGED <<uploaded, df, item_col, width_col, length_col, globals, remembered>>

\* line 54
SelectWidth ==
    /\ uploaded
    /\ \E c \in ColumnSet \ {width_col} : width_col' = c
    /\ outcome' = no_result
    /\ UNCHANGED <<uploaded, df, item_col, height_col, length_col, globals, remembered>>

\* line 55
SelectLength ==
    /\ uploaded
    /\ \E c \in ColumnSet \ {length_col} : length_col' = c
    /\ outcome' = no_result
    /\ UNCHANGED <<uploaded, df, item_col, height_col, width_col, globals, remembered>>

\* the button handler reversing the module-level list in place
ProcessFile_reversing ==
    /\ uploaded
    /\ outcome' = process_file(df, item_col, height_col, width_col, length_col)
    /\ CARDBOARD_OPTIONS' = [i \in DOMAIN CARDBOARD_OPTIONS |->
                                CARDBOARD_OPTIONS[Len(CARDBOARD_OPTIONS) + 1 - i]]
    /\ UNCHANGED <<uploaded, df, selectors, MAX_WIDTH, MAX_LENGTH, MAX_HEIGHT, remembered>>

\* lines 57-111: the button is pressed
ProcessFile ==
    /\ uploaded
    /\ outcome' = process_file(df, item_col, height_col, width_col, length_col)
    /\ UNCHANGED <<uploaded, df, selectors, globals, remembered>>

\* history: the invocation just made is the one kept for comparison
Remember ==
    /\ outcome.done
    /\ remembered' = [set |-> TRUE, table |-> df, sel |-> selectors, outcome |-> outcome]
    /\ UNCHANGED <<uploaded, df, selectors, globals, outcome>>

UploadFile == Upload(Tables)

UploadRow == Upload(RowTables)

UploadCfg == Upload(CfgTables)

UploadRun == Upload(RunTables)

Widgets == RemoveFile \/ SelectItem \/ SelectHeight \/ SelectWidth \/ SelectLength

Next == UploadFile \/ Widgets \/ ProcessFile

Spec == Init /\ [][Next]_vars

\* one-row tables at the limits
NextRow == UploadRow \/ Widgets \/ ProcessFile

SpecRow == Init /\ [][NextRow]_vars

\* any ascending cardboard list in place of line 9
InitCfg ==
    /\ uploaded = FALSE
    /\ df = no_df
    /\ item_col = "None" /\ height_col = "None"
    /\ width_col = "None" /\ length_col = "None"
    /\ MAX_WIDTH = 22
    /\ MAX_LENGTH = 15
    /\ MAX_HEIGHT = 11
    /\ CARDBOARD_OPTIONS \in AscendingLists
    /\ outcome = no_result
    /\ remembered = nothing_remembered

NextCfg == UploadCfg \/ Widgets \/ ProcessFile

SpecCfg == InitCfg /\ [][NextCfg]_vars

\* two invocations side by side
NextRuns == UploadRun \/ Widgets \/ ProcessFile \/ Remember

SpecRuns == Init /\ [][NextRuns]_vars

-----------------------------------------------------------------------------------------------------------------------------------------------------
(* Properties *)

Rows == DOMAIN df

Out == outcome.df_out

\* the button was pressed and the run ended without an exception
Processed == outcome.done /\ outcome.exc = "None"

\* the selected cells of row i as pd.to_numeric reads them
Dims(i) ==
    [h |-> parse_cell(df[i][height_col]),
     w |-> parse_cell(df[i][width_col]),
     l |-> parse_cell(df[i][length_col])]

AllParsed(d) == d.h.ok /\ d.w.ok /\ d.l.ok

\* x is a number and x <= n
AtMost(x, n) == (x.k = "num" /\ x.v <= n) \/ (x.k = "inf" /\ x.v < 0)

Finite(x) == x.k = "num"

IsNull(x) == x.k = "nan"

\* the row parsed in all three dimensions and lies within 11 / 22 / 15, bounds included
Fits(d) ==
    /\ AllParsed(d)
    /\ AtMost(d.h.val, 11)
    /\ AtMost(d.w.val, 22)
    /\ AtMost(d.l.val, 15)

\* C1: Status is "OK" exactly for the rows whose three dimensions parsed and lie
\* within 11 / 22 / 15 (bounds included); every other row is "No OK".
C1_StatusIffFits ==
    outcome.done =>
        /\ outcome.exc = "None"
        /\ \A i \in Rows : Out[i].Status = (IF Fits(Dims(i)) THEN "OK" ELSE "No OK")

\* a row exactly at 11 / 22 / 15 is OK
C1_Witness ==
    /\ Processed
    /\ \E i \in Rows :
        LET d == Dims(i)
        IN  /\ d.h.val = Num(11) /\ d.w.val = Num(22) /\ d.l.val = Num(15)
            /\ Out[i].Status = "OK"

\* height + width of a row
Wrap(d) == FAdd(d.h.val, d.w.val)

\* the row-at-a-time rule, smallest width first, first match wins
FirstMatch(d) ==
    IF ~d.h.ok \/ ~d.w.ok THEN "No Fit"
    ELSE IF AtMost(Wrap(d), 23) THEN "23"
    ELSE IF AtMost(Wrap(d), 39) THEN "39"
    ELSE "No Fit"

\* C2: the masked overwrite of pick_cardboard gives every row the bucket of the
\* row-at-a-time first-match rule; wrap 23 -> "23", wrap 39 -> "39", wrap 40 -> "No Fit".
C2_BucketIsFirstMatch ==
    outcome.done =>
        /\ outcome.exc = "None"
        /\ \A i \in Rows :
            LET d == Dims(i)
            IN  /\ Out[i].OptimalCardboardWidth = FirstMatch(d)
                /\ (d.h.ok /\ d.w.ok) =>
                    /\ Wrap(d) = Num(23) => Out[i].OptimalCardboardWidth = "23"
                    /\ Wrap(d) = Num(39) => Out[i].OptimalCardboardWidth = "39"
                    /\ Wrap(d) = Num(40) => Out[i].OptimalCardboardWidth = "No Fit"

\* a row whose wrap is exactly 23 satisfies both masks and ends in "23"
C2_Witness ==
    /\ Processed
    /\ \E i \in Rows :
        LET d == Dims(i)
        IN  /\ d.h.ok /\ d.w.ok
            /\ Wrap(d) = Num(23)
            /\ Out[i].OptimalCardboardWidth = "23"

\* the product of three parsed dimensions, finite or not
Sgn(x) == IF x.v > 0 THEN 1 ELSE IF x.v < 0 THEN -1 ELSE 0

\* zero times infinity
Indeterminate(d) ==
    /\ \E x \in {d.h.val, d.w.val, d.l.val} : x.k = "inf"
    /\ \E x \in {d.h.val, d.w.val, d.l.val} : x = Num(0)

Product(d) ==
    IF Finite(d.h.val) /\ Finite(d.w.val) /\ Finite(d.l.val)
    THEN Num(d.h.val.v * d.w.val.v * d.l.val.v)
    ELSE Inf(Sgn(d.h.val) * Sgn(d.w.val) * Sgn(d.l.val))

\* C3 as stated: Volume is non-null exactly when the three dimensions parsed, and
\* is then their product.
C3_VolumeIffParsed ==
    outcome.done =>
        \A i \in Rows :
            LET d == Dims(i)
            IN  /\ ~IsNull(Out[i].Volume) <=> AllParsed(d)
                /\ ~IsNull(Out[i].Volume) => Out[i].Volume = Product(d)

\* C3 amended: Volume is non-null exactly when the three dimensions parsed and
\* their product is not the indeterminate zero times infinity; it is then their
\* product; a row with a missing dimension has a null Volume.
C3_VolumeIffDefinedProduct ==
    outcome.done =>
        /\ outcome.exc = "None"
        /\ \A i \in Rows :
            LET d == Dims(i)
            IN  /\ ~IsNull(Out[i].Volume) <=> (AllParsed(d) /\ ~Indeterminate(d))
                /\ ~IsNull(Out[i].Volume) => Out[i].Volume = Product(d)
                /\ ~AllParsed(d) => IsNull(Out[i].Volume)

\* 11 x 22 x 15 has Volume 3630
C3_Witness ==
    /\ Processed
    /\ \E i \in Rows :
        LET d == Dims(i)
        IN  /\ d.h.val = Num(11) /\ d.w.val = Num(22) /\ d.l.val = Num(15)
            /\ Out[i].Volume = Num(3630)

\* C10: with the shipped constants an "OK" row always has bucket "23" or "39".
C10_OkHasCardboard ==
    outcome.done =>
        /\ outcome.exc = "None"
        /\ \A i \in Rows :
            /\ Out[i].Status = "OK" => Out[i].OptimalCardboardWidth \in {"23", "39"}
            /\ Out[i].OptimalCardboardWidth = "No Fit" => Out[i].Status = "No OK"

\* the largest OK wrap, 11 + 22, is wrapped by "39"
C10_Witness ==
    /\ Processed
    /\ \E i \in Rows :
        LET d == Dims(i)
        IN  /\ d.h.val = Num(11) /\ d.w.val = Num(22)
            /\ Out[i].Status = "OK"
            /\ Out[i].OptimalCardboardWidth = "39"

\* C4: a run over any table, malformed cells included, raises nothing and gives
\* one output row per input row, in order, each with one Status and one bucket
\* decided by that row's own cells; a malformed cell makes its own row No OK
\* (No Fit when it is the height or the width).
C4_EveryRowClassified ==
    outcome.done =>
        /\ outcome.exc = "None"
        /\ DOMAIN Out = Rows
        /\ \A i \in Rows :
            LET d == Dims(i)
            IN  /\ Out[i].ItemID = df[i][item_col]
                /\ Out[i].Height = d.h.val
                /\ Out[i].Width = d.w.val
                /\ Out[i].Length = d.l.val
                /\ Out[i].Status \in {"OK", "No OK"}
                /\ Out[i].OptimalCardboardWidth \in {"23", "39", "No Fit"}
                /\ Out[i].Status = "OK" <=> Fits(d)
                /\ Out[i].OptimalCardboardWidth = FirstMatch(d)
                /\ ~AllParsed(d) => Out[i].Status = "No OK"
                /\ (~d.h.ok \/ ~d.w.ok) => Out[i].OptimalCardboardWidth = "No Fit"

\* a malformed first row before a second row that is OK
C4_Witness ==
    /\ Processed
    /\ \E i, j \in Rows :
        /\ i < j
        /\ ~Dims(i).h.ok /\ Out[i].Status = "No OK" /\ Out[i].OptimalCardboardWidth = "No Fit"
        /\ Out[j].Status = "OK"

\* C5: ok_count + no_ok_count = total = the number of output rows; a table of
\* zero rows gives 0, 0, 0 and no error.
C5_CountsAddUp ==
    outcome.done =>
        /\ outcome.exc = "None"
        /\ outcome.summary.total = Cardinality(DOMAIN Out)
        /\ outcome.summary.ok_count = Cardinality({i \in Rows : Out[i].Status = "OK"})
        /\ outcome.summary.ok_count + outcome.summary.no_ok_count = outcome.summary.total
        /\ Rows = {} =>
            /\ outcome.summary.total = 0
            /\ outcome.summary.ok_count = 0
            /\ outcome.summary.no_ok_count = 0

\* a table with rows of both kinds
C5_Witness ==
    /\ Processed
    /\ outcome.summary.ok_count >= 1
    /\ outcome.summary.no_ok_count >= 2
    /\ outcome.summary.total = outcome.summary.ok_count + outcome.summary.no_ok_count

\* C6: rows with the same height cell and the same width cell get the same
\* bucket, whatever their length cells.
C6_BucketIgnoresLength ==
    outcome.done =>
        /\ outcome.exc = "None"
        /\ \A i, j \in Rows :
            (df[i][height_col] = df[j][height_col] /\ df[i][width_col] = df[j][width_col])
                => Out[i].OptimalCardboardWidth = Out[j].OptimalCardboardWidth

\* H=5, W=10 with L="abc" (No OK, no Volume) beside H=5, W=10 with L=16: both "23"
C6_Witness ==
    /\ Processed
    /\ \E i, j \in Rows :
        LET di == Dims(i)
            dj == Dims(j)
        IN  /\ di.h.val = Num(5) /\ di.w.val = Num(10) /\ ~di.l.ok
            /\ dj.h.val = Num(5) /\ dj.w.val = Num(10) /\ dj.l.val = Num(16)
            /\ Out[i].OptimalCardboardWidth = "23" /\ Out[j].OptimalCardboardWidth = "23"
            /\ Out[i].Status = "No OK" /\ IsNull(Out[i].Volume)

\* p hundredths is count / total * 100 to the nearest hundredth
Nearest(p, count, total) ==
    LET d == p * total - count * 10000
    IN  2 * d <= total /\ 2 * d >= -total

\* C7: the two percentages are count / total * 100 rounded to 2 places when
\* total > 0 (3 of 4 gives 75.00 and 25.00), and 0.0 with no division when total = 0.
C7_Percentages ==
    outcome.done =>
        /\ outcome.exc = "None"
        /\ outcome.summary.total > 0 =>
            /\ Nearest(outcome.summary.ok_pct, outcome.summary.ok_count, outcome.summary.total)
            /\ Nearest(outcome.summary.no_ok_pct, outcome.summary.no_ok_count, outcome.summary.total)
        /\ (outcome.summary.total = 4 /\ outcome.summary.ok_count = 3) =>
            (outcome.summary.ok_pct = 7500 /\ outcome.summary.no_ok_pct = 2500)
        /\ outcome.summary.total = 0 =>
            (outcome.summary.ok_pct = 0 /\ outcome.summary.no_ok_pct = 0)

\* 4 rows, 3 OK: 75.00 and 25.00
C7_Witness ==
    /\ Processed
    /\ outcome.summary.total = 4
    /\ outcome.summary.ok_count = 3
    /\ outcome.summary.ok_pct = 7500
    /\ outcome.summary.no_ok_pct = 2500

\* C8: an invocation's outcome depends on its table and selectors alone: it
\* equals the outcome of any earlier invocation with the same table and
\* selectors, and no step changes the constants or, in a run, the table.
C8_SameInputSameOutput ==
    /\ [](( /\ outcome.done
            /\ remembered.set
            /\ remembered.table = df
            /\ remembered.sel = selectors ) => remembered.outcome = outcome)
    /\ [][ /\ MAX_WIDTH' = MAX_WIDTH /\ MAX_WIDTH = 22
           /\ MAX_LENGTH' = MAX_LENGTH /\ MAX_LENGTH = 15
           /\ MAX_HEIGHT' = MAX_HEIGHT /\ MAX_HEIGHT = 11
           /\ CARDBOARD_OPTIONS' = CARDBOARD_OPTIONS /\ CARDBOARD_OPTIONS = <<23, 39>>
           /\ outcome'.done => df' = df ]_vars

\* the remembered invocation's input is processed again
C8_Witness ==
    /\ Processed
    /\ remembered.set
    /\ remembered.table = df
    /\ remembered.sel = selectors
    /\ Rows # {}
    /\ remembered.outcome = outcome

\* the configured widths that can wrap the row
Sufficient(d) == {k \in 1..Len(CARDBOARD_OPTIONS) : AtMost(Wrap(d), CARDBOARD_OPTIONS[k])}

====
